---- MODULE Spec2Model ----
(***************************************************************************)
(* A model of main.py: the Miami-Dade parking search API.                  *)
(*                                                                         *)
(* One request at a time is followed through get_parking_tickets and       *)
(* fetch_all_citations: landing GET, search POST, parsing of the results   *)
(* page, the concurrent per-citation detail fetches of the thread pool,    *)
(* the collection of their results as they complete, and the merge.        *)
(*                                                                         *)
(* Python values are tagged pairs, so that a str and a bool never compare  *)
(* equal: <<"str", s>>, <<"bool", "True">>, <<"none", "">>.  A dict is a   *)
(* function from its keys (strings) to such values.  Text that the code    *)
(* slices or rewrites character by character (header cells, the labels of  *)
(* the detail tables, the tag) is a sequence of one-character strings.     *)
(***************************************************************************)
EXTENDS Naturals, Sequences, FiniteSets, TLC

VARIABLES
    portal,      \* the target site: the pages it serves (unchanged between requests)
    pc,          \* position of the request being served
    tag,         \* request.args.get('tag') of the request being served
    data,        \* fetch_all_citations: the search form field set
    soup,        \* fetch_all_citations: the page parsed last
    rows,        \* fetch_all_citations: parse_main_rows(table)
    total_due,   \* fetch_all_citations: text of #lbl_totaldue_vTag, or None
    fstate,      \* per submitted future: "queued", "running", "done", "collected"
    fout,        \* per future: what its detail fetch met ("ok" or the exception raised)
    fresult,     \* per future: the value fetch_citation_details_worker returned
    citations,   \* fetch_all_citations: the list the results are appended to
    calls,       \* network calls issued while serving the current request
    response,    \* what get_parking_tickets answered: [code, body]
    prev,        \* the summary of the previous 200 answer, if any
    latest,      \* the hidden inputs of the page received last while serving the request
    sent,        \* the form submission issued last: [kind, form, after]
    global_session,  \* _global_session: None, or the Session and whether its headers are set
    built,       \* how many times requests.Session() was constructed
    session_lock,    \* _session_lock: 0 when free, else the caller that holds it
    cpc,         \* per caller of get_global_session: its position in the function
    got,         \* per caller: what its last call of get_global_session returned
    ncalls,      \* per caller: the calls of get_global_session it has made
    pb           \* one call of postback: its arguments, loop counter, submissions, outcome

pipelineVars == <<portal, pc, tag, data, soup, rows, total_due, fstate, fout, fresult,
                  citations, calls, response, prev, latest, sent>>
sessionVars == <<global_session, built>>
callerVars == <<session_lock, cpc, got, ncalls>>
postbackVars == <<pb>>

vars == <<pipelineVars, sessionVars, callerVars, postbackVars>>

-----------------------------------------------------------------------------
(* Python values and dicts *)

PyStr(s) == <<"str", s>>
PyTrue == <<"bool", "True">>
PyFalse == <<"bool", "False">>
PyNone == <<"none", "">>
PyBool(b) == IF b THEN PyTrue ELSE PyFalse

\* bool(v), as the list comprehensions of the partition evaluate it
Truthy(v) == \/ v = PyTrue
             \/ v[1] = "str" /\ v[2] # ""

\* d.update(e)
DictUpdate(d, e) ==
    [k \in DOMAIN d \cup DOMAIN e |-> IF k \in DOMAIN e THEN e[k] ELSE d[k]]

\* d[k] = v
DictSet(d, k, v) == DictUpdate(d, k :> v)

\* d.get(k, default)
DictGet(d, k, default) == IF k \in DOMAIN d THEN d[k] ELSE default

EmptyDict == [k \in {} |-> PyNone]

-----------------------------------------------------------------------------
(* Text *)

UpperChars == <<"A","B","C","D","E","F","G","H","I","J","K","L","M",
                "N","O","P","Q","R","S","T","U","V","W","X","Y","Z">>
LowerChars == <<"a","b","c","d","e","f","g","h","i","j","k","l","m",
                "n","o","p","q","r","s","t","u","v","w","x","y","z">>

LowerChar(c) ==
    IF \E i \in 1..26 : UpperChars[i] = c
    THEN LowerChars[CHOOSE i \in 1..26 : UpperChars[i] = c]
    ELSE c

UpperChar(c) ==
    IF \E i \in 1..26 : LowerChars[i] = c
    THEN UpperChars[CHOOSE i \in 1..26 : LowerChars[i] = c]
    ELSE c

\* str.lower() and str.upper()
Lower(s) == [i \in 1..Len(s) |-> LowerChar(s[i])]
Upper(s) == [i \in 1..Len(s) |-> UpperChar(s[i])]

\* str.strip()
RECURSIVE LStrip(_)
LStrip(s) == IF s # <<>> /\ Head(s) = " " THEN LStrip(Tail(s)) ELSE s
RECURSIVE RStrip(_)
RStrip(s) ==
    IF s # <<>> /\ s[Len(s)] = " " THEN RStrip(SubSeq(s, 1, Len(s) - 1)) ELSE s
Strip(s) == RStrip(LStrip(s))

\* the characters as one string
RECURSIVE Join(_)
Join(s) == IF s = <<>> THEN "" ELSE Head(s) \o Join(Tail(s))

\* s.replace(a, b) for a one-character a; b is a sequence of characters
RECURSIVE Replace(_, _, _)
Replace(s, a, b) ==
    IF s = <<>> THEN <<>>
    ELSE (IF Head(s) = a THEN b ELSE <<Head(s)>>) \o Replace(Tail(s), a, b)

\* s.startswith(p)
StartsWith(s, p) == Len(s) >= Len(p) /\ SubSeq(s, 1, Len(p)) = p

-----------------------------------------------------------------------------
(* Parsing helpers.  A results table is [trs |-> <<tr, ...>>], a tr is       *)
(* [ths |-> <<text, ...>>, tds |-> <<cell, ...>>], a cell is                 *)
(* [text |-> string, href |-> NoHref or [postback, parts]]: the stripped     *)
(* text of the cell and its first anchor's href, split on the quote.         *)

NoHref == [postback |-> FALSE, parts |-> <<>>, present |-> FALSE]

Max(S) == CHOOSE x \in S : \A y \in S : y <= x

RECURSIVE AllThs(_)
AllThs(trs) == IF trs = <<>> THEN <<>> ELSE Head(trs).ths \o AllThs(Tail(trs))

NeededHeaders ==
    { <<"c","i","t","a","t","i","o","n">>,
      <<"d","a","t","e"," ","i","s","s","u","e","d">>,
      <<"s","t","a","t","u","s">>,
      <<"a","m","o","u","n","t"," ","d","u","e">> }

IsResultsTable(table) ==
    LET headers == AllThs(table.trs)
    IN  /\ headers # <<>>
        /\ NeededHeaders \subseteq { Lower(headers[i]) : i \in 1..Len(headers) }

\* the index of the first results table of the page, 0 for None
find_results_table(page) ==
    LET hits == { i \in 1..Len(page.tables) : IsResultsTable(page.tables[i]) }
    IN  IF hits = {} THEN 0 ELSE CHOOSE i \in hits : \A j \in hits : i <= j

\* the column of a field taken from its position, whatever the header says
HeaderIndexByPosition(header_cells, name, default) == default

\* hmap.get(name, default): the last header cell of that name wins, 0-based
HeaderIndex(header_cells, name, default) ==
    LET at == { i \in 1..Len(header_cells) : Lower(header_cells[i]) = name }
    IN  IF at = {} THEN default ELSE Max(at) - 1

ExpandTarget(cell) ==
    IF cell.href.present /\ cell.href.postback /\ Len(cell.href.parts) >= 2
    THEN PyStr(cell.href.parts[2])
    ELSE PyNone

RECURSIVE ParseBodyRows(_, _)
ParseBodyRows(trs, idx) ==
    IF trs = <<>> THEN <<>>
    ELSE LET tds == Head(trs).tds
             rest == ParseBodyRows(Tail(trs), idx)
         IN  IF Len(tds) < Max({idx.amount, idx.status, idx.date, idx.cit, idx.plus}) + 1
             THEN rest
             ELSE IF tds[idx.cit + 1].text = ""
             THEN rest
             ELSE << ("Citation" :> PyStr(tds[idx.cit + 1].text))
                     @@ ("Date Issued" :> PyStr(tds[idx.date + 1].text))
                     @@ ("Status" :> PyStr(tds[idx.status + 1].text))
                     @@ ("Amount Due" :> PyStr(tds[idx.amount + 1].text))
                     @@ ("_expand_target" :> ExpandTarget(tds[idx.plus + 1])) >>
                  \o rest

parse_main_rows(results_table) ==
    LET trs == results_table.trs
    IN  IF Len(trs) < 2 THEN <<>>
        ELSE LET header_cells == trs[1].ths
                 idx == [ plus   |-> HeaderIndex(header_cells, <<"m","o","r","e"," ","i","n","f","o">>, 0),
                          cit    |-> HeaderIndex(header_cells, <<"c","i","t","a","t","i","o","n">>, 1),
                          date   |-> HeaderIndex(header_cells, <<"d","a","t","e"," ","i","s","s","u","e","d">>, 2),
                          status |-> HeaderIndex(header_cells, <<"s","t","a","t","u","s">>, 3),
                          amount |-> HeaderIndex(header_cells, <<"a","m","o","u","n","t"," ","d","u","e">>, 4) ]
             IN  ParseBodyRows(Tail(trs), idx)

-----------------------------------------------------------------------------
(* The detail page: [spans |-> <<<<id, text>>, ...>>, tables |-> <<t, ...>>] *)
(* with t = [class |-> string, rows |-> <<<<cell text, ...>>, ...>>]; the    *)
(* text of a first cell is a sequence of characters, the others are strings. *)
(* The dict that parse_citation_details builds is the sequence of its        *)
(* <<key, value>> items in insertion order, the keys sequences of characters.*)

id_mappings ==
    << <<"lb_Citation", <<"c","i","t","a","t","i","o","n","_","n","u","m","b","e","r">>>>,
       <<"lb_Tag", <<"t","a","g","_","n","u","m","b","e","r">>>>,
       <<"lb_State", <<"s","t","a","t","e">>>>,
       <<"lb_IssueDateTime", <<"i","s","s","u","e","_","d","a","t","e","_","t","i","m","e">>>>,
       <<"lb_amountdue", <<"a","m","o","u","n","t","_","d","u","e","_","n","o","w">>>>,
       <<"lb_duedate", <<"d","u","e","_","d","a","t","e">>>>,
       <<"lb_amountdueafter", <<"a","m","o","u","n","t","_","d","u","e","_","a","f","t","e","r","_","d","u","e","_","d","a","t","e">>>>,
       <<"lb_Status", <<"s","t","a","t","u","s">>>>,
       <<"lb_Violation", <<"v","i","o","l","a","t","i","o","n","_","t","y","p","e">>>>,
       <<"lb_location", <<"l","o","c","a","t","i","o","n">>>>,
       <<"lb_municipality", <<"m","u","n","i","c","i","p","a","l","i","t","y">>>>,
       <<"lb_carmake", <<"v","e","h","i","c","l","e","_","m","a","k","e">>>>,
       <<"lb_carstyle", <<"v","e","h","i","c","l","e","_","s","t","y","l","e">>>>,
       <<"lb_color", <<"v","e","h","i","c","l","e","_","c","o","l","o","r">>>> >>

\* items[key] = value on the ordered dict
ItemsSet(items, key, value) ==
    IF \E i \in 1..Len(items) : items[i][1] = key
    THEN [i \in 1..Len(items) |-> IF items[i][1] = key THEN <<key, value>> ELSE items[i]]
    ELSE Append(items, <<key, value>>)

\* soup.find("span", id=element_id): the first span of that id, 0 for None
FindSpan(page, element_id) ==
    LET at == { i \in 1..Len(page.spans) : page.spans[i][1] = element_id }
    IN  IF at = {} THEN 0 ELSE CHOOSE i \in at : \A j \in at : i <= j

RECURSIVE KnownFields(_, _, _)
KnownFields(page, n, details) ==
    IF n > Len(id_mappings) THEN details
    ELSE LET at == FindSpan(page, id_mappings[n][1])
         IN  KnownFields(page, n + 1,
                 IF at = 0 THEN details
                 ELSE ItemsSet(details, id_mappings[n][2], page.spans[at][2]))

\* key.lower().replace(' ', '_').replace('/', '_').replace('&', 'and')
CleanKey(key) ==
    Replace(Replace(Replace(Lower(key), " ", <<"_">>), "/", <<"_">>), "&", <<"a","n","d">>)

TablePrefix == <<"t","a","b","l","e","_">>

RECURSIVE TableRows(_, _)
TableRows(trows, details) ==
    IF trows = <<>> THEN details
    ELSE LET cells == Head(trows)
         IN  TableRows(Tail(trows),
                 IF Len(cells) >= 2 /\ cells[1] # <<>> /\ cells[2] # ""
                 THEN ItemsSet(details, TablePrefix \o CleanKey(cells[1]), cells[2])
                 ELSE details)

RECURSIVE FallbackTables(_, _)
FallbackTables(tables, details) ==
    IF tables = <<>> THEN details
    ELSE FallbackTables(Tail(tables),
             IF Head(tables).class = "table table-bordered mb-0"
             THEN TableRows(Head(tables).rows, details)
             ELSE details)

parse_citation_details(page) ==
    FallbackTables(page.tables, KnownFields(page, 1, <<>>))

-----------------------------------------------------------------------------
(* The form field set *)

\* every named control of the page with its submitted value
collect_form_fields(page) == page.fields

HiddenIds == {"__VIEWSTATE", "__EVENTVALIDATION", "__VIEWSTATEGENERATOR"}

extract_hidden_fields(page) ==
    [i \in HiddenIds |-> IF i \in DOMAIN page.hidden THEN page.hidden[i] ELSE PyStr("")]

TagField == "ctl00$ContentPlaceHolder1$txtTag"
CitnField == "ctl00$ContentPlaceHolder1$txtcitn"
TabField == "ctl00$ContentPlaceHolder1$hfTab"
StateField == "ctl00$ContentPlaceHolder1$DropDownState"

\* tag_number.strip().upper()
NormalTag(t) == Join(Upper(Strip(t)))

\* step 2 of fetch_all_citations: the field set of the tag search
SearchForm(page, t) ==
    LET d0 == DictUpdate(collect_form_fields(page), extract_hidden_fields(page))
        d1 == DictSet(d0, "__EVENTTARGET", PyStr("ctl00$ContentPlaceHolder1$btnSubmit_TagSearch"))
        d2 == DictSet(d1, "__EVENTARGUMENT", PyStr(""))
        d3 == DictSet(d2, TagField, PyStr(NormalTag(t)))
        d4 == IF StateField \in DOMAIN d3 /\ ~Truthy(d3[StateField])
              THEN DictSet(d3, StateField, PyStr("FL")) ELSE d3
        d5 == IF TabField \in DOMAIN d4 THEN DictSet(d4, TabField, PyStr("tagplate")) ELSE d4
    IN  IF CitnField \in DOMAIN d5 THEN DictSet(d5, CitnField, PyStr("")) ELSE d5

\* the field set that fetch_citation_details_optimized submits for one citation
DetailForm(base_form_data, citation_number) ==
    LET d1 == DictSet(base_form_data, "__EVENTTARGET",
                      PyStr("ctl00$ContentPlaceHolder1$btnSubmit_CitSearch"))
        d2 == DictSet(d1, "__EVENTARGUMENT", PyStr(""))
        d3 == DictSet(d2, CitnField, citation_number)
        d4 == DictSet(d3, TagField, PyStr(""))
        d5 == IF TabField \in DOMAIN d4 THEN DictSet(d4, TabField, PyStr("citation")) ELSE d4
    IN  IF StateField \in DOMAIN d5 THEN DictSet(d5, StateField, PyStr("FL")) ELSE d5

-----------------------------------------------------------------------------
(* The worker of one detail fetch *)

\* what a network call can raise, and str(e) of each
FailKinds == {"Timeout", "HTTPError", "ParseError"}

ErrText(kind) ==
    CASE kind = "Timeout" -> "Read timed out. (read timeout=30)"
      [] kind = "HTTPError" -> "500 Server Error: Internal Server Error for url"
      [] kind = "ParseError" -> "maximum recursion depth exceeded"

\* the cleaned_details loop: the table_ prefix is cut off, later items overwrite
RECURSIVE CleanDetails(_, _)
CleanDetails(items, cleaned) ==
    IF items = <<>> THEN cleaned
    ELSE LET key == Head(items)[1]
             value == PyStr(Head(items)[2])
         IN  CleanDetails(Tail(items),
                 IF StartsWith(key, TablePrefix)
                 THEN DictSet(cleaned, Join(SubSeq(key, 7, Len(key))), value)
                 ELSE DictSet(cleaned, Join(key), value))

SummaryFields(row) ==
    [k \in {"Citation", "Date Issued", "Status", "Amount Due"} |-> row[k]]

\* the try branch, lines 294-327
DetailedRecord(row, details) ==
    LET open == row["Status"] = PyStr("OPEN")
        info == SummaryFields(row)
                @@ ("needs_payment" :> PyBool(open))
                @@ ("payment_required" :> IF open THEN row["Amount Due"] ELSE PyStr("$0.00"))
        merged == DictUpdate(info, CleanDetails(details, EmptyDict))
    IN  IF details = <<>> THEN info
        ELSE IF "due_date" \notin DOMAIN merged
        THEN merged @@ ("due_date" :> PyStr("Not available"))
                    @@ ("due_date_estimated" :> PyFalse)
        ELSE merged

\* DegradedRecord without its due_date placeholder
DegradedRecordNoDueDate(row, kind) ==
    LET open == row["Status"] = PyStr("OPEN")
    IN  SummaryFields(row)
        @@ ("needs_payment" :> PyBool(open))
        @@ ("payment_required" :> IF open THEN row["Amount Due"] ELSE PyStr("$0.00"))
        @@ ("error" :> PyStr(ErrText(kind)))

\* the except branch, lines 328-341
DegradedRecord(row, kind) ==
    LET open == row["Status"] = PyStr("OPEN")
    IN  SummaryFields(row)
        @@ ("needs_payment" :> PyBool(open))
        @@ ("payment_required" :> IF open THEN row["Amount Due"] ELSE PyStr("$0.00"))
        @@ ("due_date" :> PyStr("Not available"))
        @@ ("due_date_estimated" :> PyFalse)
        @@ ("error" :> PyStr(ErrText(kind)))

\* the worker without its try/except: the exception leaves the worker
WorkerUncontained(row, out, page) ==
    IF out = "ok"
    THEN [raised |-> FALSE, value |-> DetailedRecord(row, parse_citation_details(page))]
    ELSE [raised |-> TRUE, value |-> ErrText(out)]

\* out is "ok", with the detail page received, or the FailKind that the fetch
\* raised; the worker returns a value and never raises
fetch_citation_details_worker(row, out, page) ==
    [ raised |-> FALSE,
      value  |-> IF out = "ok"
                 THEN DetailedRecord(row, parse_citation_details(page))
                 ELSE DegradedRecord(row, out) ]

\* future.result() in the as_completed loop, with its except branch (lines 434-449)
FutureRecord(citation_number, result) ==
    IF result.raised
    THEN ("Citation" :> citation_number)
         @@ ("Date Issued" :> PyStr("Unknown"))
         @@ ("Status" :> PyStr("Unknown"))
         @@ ("Amount Due" :> PyStr("Unknown"))
         @@ ("needs_payment" :> PyFalse)
         @@ ("payment_required" :> PyStr("$0.00"))
         @@ ("error" :> PyStr(result.value))
    ELSE result.value

-----------------------------------------------------------------------------
(* citations.sort(key=lambda x: x.get("Citation", "")) *)

\* the code points of the citation ids of the model
CodePoints(s) ==
    CASE s = "" -> <<>>
      [] s = "10" -> <<49, 48>>
      [] s = "2" -> <<50>>
      [] s = "7" -> <<55>>

\* a < b for two strings, as Python compares them
RECURSIVE SeqLess(_, _)
SeqLess(a, b) ==
    IF b = <<>> THEN FALSE
    ELSE IF a = <<>> THEN TRUE
    ELSE IF Head(a) # Head(b) THEN Head(a) < Head(b)
    ELSE SeqLess(Tail(a), Tail(b))

StrLess(a, b) == SeqLess(CodePoints(a), CodePoints(b))

SortKey(x) == DictGet(x, "Citation", PyStr(""))[2]

\* x put after every element whose key is not greater: the sort is stable
RECURSIVE InsertSorted(_, _)
InsertSorted(sorted, x) ==
    IF sorted = <<>> THEN <<x>>
    ELSE IF StrLess(SortKey(x), SortKey(Head(sorted)))
    THEN <<x>> \o sorted
    ELSE <<Head(sorted)>> \o InsertSorted(Tail(sorted), x)

\* the sort left out
SortSkipped(list) == list

RECURSIVE SortByCitation(_)
SortByCitation(list) ==
    IF list = <<>> THEN <<>>
    ELSE InsertSorted(SortByCitation(SubSeq(list, 1, Len(list) - 1)), list[Len(list)])

\* [c for c in list if keep(c)]
RECURSIVE PaidOf(_)
PaidOf(list) ==
    IF list = <<>> THEN <<>>
    ELSE (IF ~Truthy(DictGet(Head(list), "needs_payment", PyFalse)) THEN <<Head(list)>> ELSE <<>>)
         \o PaidOf(Tail(list))

\* the open partition taken by the summary status instead of needs_payment
RECURSIVE OpenOfByStatus(_)
OpenOfByStatus(list) ==
    IF list = <<>> THEN <<>>
    ELSE (IF Head(list)["Status"] = PyStr("OPEN") THEN <<Head(list)>> ELSE <<>>)
         \o OpenOfByStatus(Tail(list))

RECURSIVE OpenOf(_)
OpenOf(list) ==
    IF list = <<>> THEN <<>>
    ELSE (IF Truthy(DictGet(Head(list), "needs_payment", PyFalse)) THEN <<Head(list)>> ELSE <<>>)
         \o OpenOf(Tail(list))

-----------------------------------------------------------------------------
(* The target site *)

MaxRows == 2

\* the data rows the site may list: <<citation id, status>>
RowSpecs == { <<"10", "OPEN">>, <<"2", "OPEN">>, <<"2", "PAID">>, <<"7", "Open">> }

Cell(text) == [text |-> text, href |-> NoHref]

HeaderRow ==
    [ ths |-> << <<"M","o","r","e"," ","I","n","f","o">>,
                 <<"C","i","t","a","t","i","o","n">>,
                 <<"D","a","t","e"," ","I","s","s","u","e","d">>,
                 <<"S","t","a","t","u","s">>,
                 <<"A","m","o","u","n","t"," ","D","u","e">> >>,
      tds |-> <<>> ]

DateOf(id) == CASE id = "10" -> "01/05/2024" [] id = "2" -> "02/07/2024" [] id = "7" -> "03/09/2024"
AmountOf(status) == IF status = "OPEN" THEN "$36.00" ELSE "$0.00"

DataRow(id, status) ==
    [ ths |-> <<>>,
      tds |-> << [ text |-> "+",
                   href |-> [ present |-> TRUE, postback |-> TRUE,
                              parts |-> <<"javascript:__doPostBack(", "ctl00$gv$lnk", ",", "", ")">> ] ],
                 Cell(id), Cell(DateOf(id)), Cell(status), Cell(AmountOf(status)) >> ]

LayoutTable == [trs |-> << [ths |-> <<>>, tds |-> <<Cell("Search by tag")>>] >>]

ResultsTable(specs) ==
    [trs |-> <<HeaderRow>> \o [i \in 1..Len(specs) |-> DataRow(specs[i][1], specs[i][2])]]

PageFields ==
    (TagField :> PyStr("")) @@ (CitnField :> PyStr(""))
    @@ (TabField :> PyStr("")) @@ (StateField :> PyStr(""))

HiddenOf(name) == [i \in HiddenIds |-> PyStr(i \o ":" \o name)]

LandingPage ==
    [ name |-> "landing", fields |-> PageFields, hidden |-> HiddenOf("landing"),
      tables |-> <<LayoutTable>>, errLabel |-> PyNone, totalDue |-> PyNone ]

ResultsPage(tables, errLabel, totalDue) ==
    [ name |-> "results", fields |-> PageFields, hidden |-> HiddenOf("results"),
      tables |-> tables, errLabel |-> errLabel, totalDue |-> totalDue ]

NoPage ==
    [ name |-> "none", fields |-> EmptyDict, hidden |-> EmptyDict,
      tables |-> <<>>, errLabel |-> PyNone, totalDue |-> PyNone ]

RowSeqs == UNION { [1..n -> RowSpecs] : n \in 0..MaxRows }

ResultsPages ==
    { ResultsPage(<<LayoutTable>>, e, PyNone) :
          e \in {PyNone, PyStr("No citations found for the tag entered.")} }
    \cup
    { ResultsPage(<<LayoutTable, ResultsTable(specs)>>, PyNone, t) :
          specs \in RowSeqs, t \in {PyNone, PyStr("$81.00")} }

\* the detail page the site serves for a citation
DetailPageOf(id) ==
    CASE id = "10" ->
           [ spans |-> << <<"lb_Citation", "10">>, <<"lb_duedate", "02/04/2024">>,
                          <<"lb_Violation", "EXPIRED METER">> >>,
             tables |-> << [ class |-> "table table-bordered mb-0",
                             rows |-> << << <<"O","f","f","i","c","e","r","/","B","a","d","g","e">>, "1234" >>,
                                         << <<"N","o","t","e","s">>, "" >>,
                                         << <<"D","u","e"," ","D","a","t","e">>, "03/05/2024" >> >> ],
                           [ class |-> "table",
                             rows |-> << << <<"S","t","a","t","e">>, "GA" >> >> ] >> ]
      [] id = "2" ->
           [ spans |-> << <<"lb_Tag", "ABC123">> >>,
             tables |-> << [ class |-> "table table-bordered mb-0",
                             rows |-> << << <<"N","e","e","d","s"," ","P","a","y","m","e","n","t">>, "No" >> >> ] >> ]
      [] id = "7" ->
           [ spans |-> <<>>, tables |-> <<>> ]

NoDetailPage == [spans |-> <<>>, tables |-> <<>>]

\* the hidden inputs of the page the site serves for a citation
DetailHiddenOf(id) == HiddenOf("citation " \o id)

-----------------------------------------------------------------------------
(* get_global_session.  A Session is [id, configured]: which construction it *)
(* came from and whether headers.update has run on it.                       *)

NoSession == [id |-> 0, configured |-> FALSE]

\* requests.Session(), the n-th one constructed
NewSession(n) == [id |-> n, configured |-> FALSE]

\* session.headers.update({...})
Configured(session) == [session EXCEPT !.configured = TRUE]

NCallers == 3
MaxCalls == 2

Callers == 1..NCallers

NotCalled == [returned |-> FALSE, session |-> NoSession]

-----------------------------------------------------------------------------
(* postback *)

\* the default of the max_retries parameter
max_retries == 3

NoPostback ==
    [ pc |-> "idle", soup |-> NoPage, event_target |-> "", attempt |-> 0,
      posts |-> <<>>, sleeps |-> <<>>, outs |-> <<>>, result |-> "none", page |-> NoPage ]

-----------------------------------------------------------------------------
(* The request handler and the pipeline *)

PoolCap == 5

Min(a, b) == IF a <= b THEN a ELSE b

NoTag == [present |-> FALSE, text |-> <<>>]

Tags == { NoTag,
          [present |-> TRUE, text |-> <<>>],
          [present |-> TRUE, text |-> <<" ","a","b","1"," ">>] }

NoResponse == [code |-> 0, via |-> "none", origin |-> "none", cause |-> "none", body |-> EmptyDict]

ZeroSummary(due) ==
    [total_citations |-> 0, total_paid |-> 0, total_open |-> 0, total_due |-> due]

NoPrev == [seen |-> FALSE, summary |-> ZeroSummary(PyNone)]

NoSubmission == [kind |-> "none", form |-> EmptyDict, after |-> EmptyDict]

\* session.post(BASE_URL, data=form), issued when `after` was the page received last
Submission(kind, form, after) == [kind |-> kind, form |-> form, after |-> after]

\* the dict returned when no results table is found (lines 380-391)
NoResultsResult(t, page) ==
    [ tag_number |-> NormalTag(t),
      summary |-> ZeroSummary(PyNone),
      paid_citations |-> <<>>,
      open_citations |-> <<>>,
      message |-> IF page.errLabel # PyNone THEN page.errLabel
                  ELSE PyStr("No results table found.") ]

\* the empty outcome answered like the missing table
EmptyResultWithMessage(t, due) ==
    [ tag_number |-> NormalTag(t),
      summary |-> ZeroSummary(due),
      paid_citations |-> <<>>,
      open_citations |-> <<>>,
      message |-> PyStr("No results table found.") ]

\* the dict returned when the table has no data row (lines 403-413)
EmptyResult(t, due) ==
    [ tag_number |-> NormalTag(t),
      summary |-> ZeroSummary(due),
      paid_citations |-> <<>>,
      open_citations |-> <<>> ]

\* the total recomputed from the listed amounts instead of read off the page
MergedResultDueRecomputed(t, due, collected) ==
    LET sorted == SortByCitation(collected)
        paid_citations == PaidOf(sorted)
        open_citations == OpenOf(sorted)
    IN  [ tag_number |-> NormalTag(t),
          summary |-> [ total_citations |-> Len(sorted),
                        total_paid |-> Len(paid_citations),
                        total_open |-> Len(open_citations),
                        total_due |-> IF open_citations = <<>> THEN PyStr("$0.00")
                                      ELSE open_citations[1]["Amount Due"] ],
          paid_citations |-> paid_citations,
          open_citations |-> open_citations ]

\* the sort, the partition and the dict returned after the detail phase (lines 451-472)
MergedResult(t, due, collected) ==
    LET sorted == SortByCitation(collected)
        paid_citations == PaidOf(sorted)
        open_citations == OpenOf(sorted)
    IN  [ tag_number |-> NormalTag(t),
          summary |-> [ total_citations |-> Len(sorted),
                        total_paid |-> Len(paid_citations),
                        total_open |-> Len(open_citations),
                        total_due |-> due ],
          paid_citations |-> paid_citations,
          open_citations |-> open_citations ]

\* jsonify(result) with HTTP 200
Ok(via, result) ==
    [code |-> 200, via |-> via, origin |-> "none", cause |-> "none", body |-> result]

\* the except branch of get_parking_tickets, reached by the re-raise of fetch_all_citations
Failed(origin, kind) ==
    [ code |-> 500, via |-> "RAISED", origin |-> origin, cause |-> kind,
      body |-> [ error |-> PyStr("Failed to fetch parking ticket data"),
                 message |-> PyStr(ErrText(kind)) ] ]

MissingTag ==
    [ code |-> 400, via |-> "MISSING_TAG", origin |-> "none", cause |-> "none",
      body |-> [ error |-> PyStr("Missing required parameter 'tag'"),
                 usage |-> PyStr("Use /api/parking-tickets?tag=YOUR_TAG_NUMBER") ] ]

\* the process as it starts, in front of a site that answers a search with one
\* of the pages
InitWith(landings, pages) ==
    /\ portal \in { [landing |-> l, results |-> r] : l \in landings, r \in pages }
    /\ pc = "idle"
    /\ tag = NoTag
    /\ data = EmptyDict
    /\ soup = NoPage
    /\ rows = <<>>
    /\ total_due = PyNone
    /\ fstate = <<>>
    /\ fout = <<>>
    /\ fresult = <<>>
    /\ citations = <<>>
    /\ calls = 0
    /\ response = NoResponse
    /\ prev = NoPrev
    /\ latest = EmptyDict
    /\ sent = NoSubmission
    /\ global_session = NoSession
    /\ built = 0
    /\ session_lock = 0
    /\ cpc = [t \in Callers |-> "idle"]
    /\ got = [t \in Callers |-> NotCalled]
    /\ ncalls = [t \in Callers |-> 0]
    /\ pb = NoPostback

InitOn(pages) == InitWith({LandingPage}, pages)

Init == InitOn(ResultsPages)

\* the handler without its check of the tag
RequestUnchecked(t) ==
    /\ pc = "idle"
    /\ tag' = t
    /\ response' = NoResponse
    /\ pc' = "get"
    /\ UNCHANGED <<sessionVars, callerVars, postbackVars,
                   portal, data, soup, rows, total_due, fstate, fout, fresult,
                   citations, calls, prev, latest, sent>>

\* get_parking_tickets up to the call of fetch_all_citations
Request(t) ==
    /\ pc = "idle"
    /\ tag' = t
    /\ IF ~t.present \/ t.text = <<>>
       THEN response' = MissingTag /\ pc' = "answered"
       ELSE response' = NoResponse /\ pc' = "get"
    /\ UNCHANGED <<sessionVars, callerVars, postbackVars,
                   portal, data, soup, rows, total_due, fstate, fout, fresult,
                   citations, calls, prev, latest, sent>>

\* get_global_session, then steps 1 and 2: session.get, raise_for_status, the
\* parse, the search form
LandingGet(out) ==
    /\ pc = "get"
    /\ IF global_session = NoSession
       THEN global_session' = Configured(NewSession(built + 1)) /\ built' = built + 1
       ELSE UNCHANGED <<global_session, built>>
    /\ calls' = calls + 1
    /\ IF out = "ok"
       THEN /\ soup' = portal.landing
            /\ latest' = portal.landing.hidden
            /\ data' = SearchForm(portal.landing, tag.text)
            /\ pc' = "post"
            /\ UNCHANGED response
       ELSE /\ response' = Failed("get", out)
            /\ pc' = "answered"
            /\ UNCHANGED <<soup, latest, data>>
    /\ UNCHANGED <<callerVars, postbackVars,
                   portal, tag, rows, total_due, fstate, fout, fresult, citations,
                   prev, sent>>

\* step 3: session.post, raise_for_status, the parse
SearchPost(out) ==
    /\ pc = "post"
    /\ calls' = calls + 1
    /\ sent' = Submission("search", data, latest)
    /\ IF out = "ok"
       THEN /\ soup' = portal.results
            /\ latest' = portal.results.hidden
            /\ pc' = "parse"
            /\ UNCHANGED response
       ELSE /\ response' = Failed("post", out)
            /\ pc' = "answered"
            /\ UNCHANGED <<soup, latest>>
    /\ UNCHANGED <<sessionVars, callerVars, postbackVars,
                   portal, tag, data, rows, total_due, fstate, fout, fresult,
                   citations, prev>>

\* step 4 and the submission of the tasks (lines 377-429)
ParseResults ==
    /\ pc = "parse"
    /\ LET at == find_results_table(soup)
           parsed == IF at = 0 THEN <<>> ELSE parse_main_rows(soup.tables[at])
           n == Len(parsed)
       IN  IF at = 0
           THEN /\ response' = Ok("NO_RESULTS", NoResultsResult(tag.text, soup))
                /\ pc' = "answered"
                /\ UNCHANGED <<rows, total_due, fstate, fout, fresult>>
           ELSE /\ rows' = parsed
                /\ total_due' = soup.totalDue
                /\ IF n = 0
                   THEN /\ response' = Ok("EMPTY", EmptyResult(tag.text, soup.totalDue))
                        /\ pc' = "answered"
                        /\ UNCHANGED <<fstate, fout, fresult>>
                   ELSE /\ fstate' = [i \in 1..n |-> "queued"]
                        /\ fout' = [i \in 1..n |-> "none"]
                        /\ fresult' = [i \in 1..n |-> [raised |-> FALSE, value |-> EmptyDict]]
                        /\ pc' = "fanout"
                        /\ UNCHANGED response
    /\ UNCHANGED <<sessionVars, callerVars, postbackVars,
                   portal, tag, data, soup, citations, calls, prev, latest, sent>>

Running == { i \in 1..Len(fstate) : fstate[i] = "running" }
Queued == { i \in 1..Len(fstate) : fstate[i] = "queued" }

\* StartFetch with a pool that has a thread for every task
StartFetchUncapped(i) ==
    /\ pc = "fanout"
    /\ i \in Queued
    /\ \A j \in Queued : i <= j
    /\ fstate' = [fstate EXCEPT ![i] = "running"]
    /\ sent' = Submission("detail", DetailForm(data, rows[i]["Citation"]), latest)
    /\ UNCHANGED <<sessionVars, callerVars, postbackVars,
                   portal, pc, tag, data, soup, rows, total_due, fout, fresult,
                   citations, calls, response, prev, latest>>

\* StartFetch with the thread writing its fields into the shared field set
StartFetchShared(i) ==
    /\ pc = "fanout"
    /\ i \in Queued
    /\ \A j \in Queued : i <= j
    /\ Cardinality(Running) < Min(PoolCap, Len(rows))
    /\ fstate' = [fstate EXCEPT ![i] = "running"]
    /\ data' = DetailForm(data, rows[i]["Citation"])
    /\ sent' = Submission("detail", data', latest)
    /\ UNCHANGED <<sessionVars, callerVars, postbackVars,
                   portal, pc, tag, soup, rows, total_due, fout, fresult,
                   citations, calls, response, prev, latest>>

\* a pool thread takes the oldest work item off the executor's queue, builds the
\* form of its citation from the shared field set and submits it
StartFetch(i) ==
    /\ pc = "fanout"
    /\ i \in Queued
    /\ \A j \in Queued : i <= j
    /\ Cardinality(Running) < Min(PoolCap, Len(rows))
    /\ fstate' = [fstate EXCEPT ![i] = "running"]
    /\ sent' = Submission("detail", DetailForm(data, rows[i]["Citation"]), latest)
    /\ UNCHANGED <<sessionVars, callerVars, postbackVars,
                   portal, pc, tag, data, soup, rows, total_due, fout, fresult,
                   citations, calls, response, prev, latest>>

\* a failed detail fetch aborts the batch and the request
FinishFetchUncontained(i, out) ==
    /\ pc = "fanout"
    /\ i \in Running
    /\ calls' = calls + 1
    /\ fout' = [fout EXCEPT ![i] = out]
    /\ IF out = "ok"
       THEN /\ fresult' = [fresult EXCEPT ![i] =
                   fetch_citation_details_worker(rows[i], out,
                       DetailPageOf(rows[i]["Citation"][2]))]
            /\ UNCHANGED <<pc, response>>
       ELSE /\ response' = Failed("detail", out)
            /\ pc' = "answered"
            /\ UNCHANGED fresult
    /\ fstate' = [fstate EXCEPT ![i] = "done"]
    /\ latest' = IF out = "ok" THEN DetailHiddenOf(rows[i]["Citation"][2]) ELSE latest
    /\ UNCHANGED <<sessionVars, callerVars, postbackVars,
                   portal, tag, data, soup, rows, total_due, citations, prev, sent>>

\* the response of the detail submission arrives (or the call raises) and
\* fetch_citation_details_worker runs to its return
FinishFetch(i, out) ==
    /\ pc = "fanout"
    /\ i \in Running
    /\ calls' = calls + 1
    /\ fout' = [fout EXCEPT ![i] = out]
    /\ fresult' = [fresult EXCEPT ![i] =
           fetch_citation_details_worker(rows[i], out,
               IF out = "ok" THEN DetailPageOf(rows[i]["Citation"][2]) ELSE NoDetailPage)]
    /\ fstate' = [fstate EXCEPT ![i] = "done"]
    /\ latest' = IF out = "ok" THEN DetailHiddenOf(rows[i]["Citation"][2]) ELSE latest
    /\ UNCHANGED <<sessionVars, callerVars, postbackVars,
                   portal, pc, tag, data, soup, rows, total_due, citations,
                   response, prev, sent>>

\* one turn of the as_completed loop
Collect(i) ==
    /\ pc = "fanout"
    /\ i \in 1..Len(fstate)
    /\ fstate[i] = "done"
    /\ citations' = Append(citations, FutureRecord(rows[i]["Citation"], fresult[i]))
    /\ fstate' = [fstate EXCEPT ![i] = "collected"]
    /\ UNCHANGED <<sessionVars, callerVars, postbackVars,
                   portal, pc, tag, data, soup, rows, total_due, fout, fresult,
                   calls, response, prev, latest, sent>>

\* the merge does not wait for the fetches still queued or running
MergeEarly ==
    /\ pc = "fanout"
    /\ \A i \in 1..Len(fstate) : fstate[i] \notin {"done"}
    /\ response' = Ok("MERGED", MergedResult(tag.text, total_due, citations))
    /\ pc' = "answered"
    /\ UNCHANGED <<sessionVars, callerVars, postbackVars,
                   portal, tag, data, soup, rows, total_due, fstate, fout, fresult,
                   citations, calls, prev, latest, sent>>

\* the executor is shut down; sort, partition, return
Merge ==
    /\ pc = "fanout"
    /\ \A i \in 1..Len(fstate) : fstate[i] = "collected"
    /\ response' = Ok("MERGED", MergedResult(tag.text, total_due, citations))
    /\ pc' = "answered"
    /\ UNCHANGED <<sessionVars, callerVars, postbackVars,
                   portal, tag, data, soup, rows, total_due, fstate, fout, fresult,
                   citations, calls, prev, latest, sent>>

\* the answer is sent; the locals of the request are gone
Done ==
    /\ pc = "answered"
    /\ prev' = IF response.code = 200
               THEN [seen |-> TRUE, summary |-> response.body.summary]
               ELSE prev
    /\ pc' = "idle"
    /\ tag' = NoTag
    /\ data' = EmptyDict
    /\ soup' = NoPage
    /\ rows' = <<>>
    /\ total_due' = PyNone
    /\ fstate' = <<>>
    /\ fout' = <<>>
    /\ fresult' = <<>>
    /\ citations' = <<>>
    /\ calls' = 0
    /\ response' = NoResponse
    /\ latest' = EmptyDict
    /\ sent' = NoSubmission
    /\ UNCHANGED <<sessionVars, callerVars, postbackVars, portal>>

Next ==
    \/ \E t \in Tags : Request(t)
    \/ \E out \in {"ok"} \cup FailKinds : LandingGet(out)
    \/ \E out \in {"ok"} \cup FailKinds : SearchPost(out)
    \/ ParseResults
    \/ \E i \in 1..MaxRows : StartFetch(i)
    \/ \E i \in 1..MaxRows, out \in {"ok"} \cup FailKinds : FinishFetch(i, out)
    \/ \E i \in 1..MaxRows : Collect(i)
    \/ Merge
    \/ Done

Spec == Init /\ [][Next]_vars

-----------------------------------------------------------------------------
(* The pipeline in front of result pages long enough for the pool's cap to   *)
(* bind.  The pool's threads and the collecting loop are scheduled, and a    *)
(* detail submission that gets no answer ends in its timeout (timeout=30).   *)

MaxPoolRows == 6

PoolRows(n) == [i \in 1..n |-> <<"10", "OPEN">>]

PoolPages ==
    { ResultsPage(<<LayoutTable, ResultsTable(PoolRows(n))>>, PyNone, PyStr("$81.00")) :
          n \in 1..MaxPoolRows }

PoolInit == InitOn(PoolPages)

PoolNext ==
    \/ Request([present |-> TRUE, text |-> <<"a","b","1">>])
    \/ LandingGet("ok")
    \/ SearchPost("ok")
    \/ ParseResults
    \/ \E i \in 1..MaxPoolRows : StartFetch(i)
    \/ \E i \in 1..MaxPoolRows : FinishFetch(i, "Timeout")
    \/ FinishFetch(1, "ok")
    \/ \E i \in 1..MaxPoolRows : Collect(i)
    \/ Merge
    \/ Done

PoolSpec ==
    /\ PoolInit
    /\ [][PoolNext]_vars
    /\ WF_vars(\E i \in 1..MaxPoolRows : StartFetch(i))
    /\ WF_vars(\E i \in 1..MaxPoolRows : FinishFetch(i, "Timeout"))
    /\ WF_vars(\E i \in 1..MaxPoolRows : Collect(i))

-----------------------------------------------------------------------------
(* One call of postback, attempt by attempt.  The site answers a postback    *)
(* with its results page.                                                    *)

\* what one attempt can meet: a 2xx response, a timeout or a connection failure
\* of session.post, the HTTPError of raise_for_status, a failure of the parser
PostbackOuts == {"ok", "Timeout", "ConnectionError", "HTTPError", "ParseError"}

\* requests.exceptions.RequestException with its subclasses Timeout,
\* ConnectionError and HTTPError
RequestExceptions == {"Timeout", "ConnectionError", "HTTPError"}

EventTargets == {"ctl00$ContentPlaceHolder1$btnSubmit_TagSearch", "ctl00$gv$lnk"}

\* lines 95-98: every field of the page, its hidden state, the event
PostbackForm(page, event_target, event_argument) ==
    LET d0 == DictUpdate(collect_form_fields(page), extract_hidden_fields(page))
        d1 == DictSet(d0, "__EVENTTARGET", PyStr(event_target))
    IN  DictSet(d1, "__EVENTARGUMENT", PyStr(event_argument))

\* postback(session, soup, event_target) is called
PostbackCall(page, event_target) ==
    /\ pb.pc = "idle"
    /\ pb' = [NoPostback EXCEPT !.pc = "loop", !.soup = page, !.event_target = event_target]
    /\ UNCHANGED <<pipelineVars, sessionVars, callerVars>>

\* what pb is after the form of this attempt was built, the wait made when
\* attempt > 0, and the submission met out
Tried(out) ==
    [pb EXCEPT !.posts = Append(@, PostbackForm(pb.soup, pb.event_target, "")),
               !.sleeps = Append(@, pb.attempt > 0),
               !.outs = Append(@, out)]

\* the last attempt's exception is swallowed like the others, and the loop ends
\* in the raise after it
PostbackAttemptFallThrough(out) ==
    /\ pb.pc = "loop"
    /\ pb.attempt < max_retries
    /\ pb' = IF out = "ok"
             THEN [Tried(out) EXCEPT !.pc = "returned", !.page = portal.results]
             ELSE IF out \in RequestExceptions
             THEN IF pb.attempt + 1 < max_retries
                  THEN [Tried(out) EXCEPT !.attempt = @ + 1]
                  ELSE [Tried(out) EXCEPT !.pc = "raised", !.result = "Failed after 3 attempts"]
             ELSE [Tried(out) EXCEPT !.pc = "raised", !.result = out]
    /\ UNCHANGED <<pipelineVars, sessionVars, callerVars>>

\* one turn of the loop (lines 93-114); the raise of line 116 is reached only
\* with max_retries = 0
PostbackAttempt(out) ==
    /\ pb.pc = "loop"
    /\ pb.attempt < max_retries
    /\ pb' = IF out = "ok"
             THEN [Tried(out) EXCEPT !.pc = "returned", !.page = portal.results]
             ELSE IF out \in RequestExceptions /\ pb.attempt # max_retries - 1
             THEN [Tried(out) EXCEPT !.attempt = @ + 1]
             ELSE [Tried(out) EXCEPT !.pc = "raised", !.result = out]
    /\ UNCHANGED <<pipelineVars, sessionVars, callerVars>>

\* the call has returned or raised
PostbackDone ==
    /\ pb.pc \in {"returned", "raised"}
    /\ pb' = NoPostback
    /\ UNCHANGED <<pipelineVars, sessionVars, callerVars>>

PostbackNext ==
    \/ \E page \in {portal.landing, portal.results}, event_target \in EventTargets :
           PostbackCall(page, event_target)
    \/ \E out \in PostbackOuts : PostbackAttempt(out)
    \/ PostbackDone

PostbackSpec == Init /\ [][PostbackNext]_vars

-----------------------------------------------------------------------------
(* Concurrent callers of get_global_session (the threads of the server, each *)
(* serving a request), statement by statement.                               *)

\* a caller enters get_global_session and reaches `with _session_lock`
CallSession(t) ==
    /\ cpc[t] = "idle"
    /\ ncalls[t] < MaxCalls
    /\ ncalls' = [ncalls EXCEPT ![t] = @ + 1]
    /\ cpc' = [cpc EXCEPT ![t] = "waiting"]
    /\ UNCHANGED <<pipelineVars, sessionVars, postbackVars, session_lock, got>>

\* the with statement entered without the lock being held exclusively
AcquireUnlocked(t) ==
    /\ cpc[t] = "waiting"
    /\ session_lock' = t
    /\ cpc' = [cpc EXCEPT ![t] = "locked"]
    /\ UNCHANGED <<pipelineVars, sessionVars, postbackVars, got, ncalls>>

\* _session_lock.__enter__: the caller gets the lock once it is free
Acquire(t) ==
    /\ cpc[t] = "waiting"
    /\ session_lock = 0
    /\ session_lock' = t
    /\ cpc' = [cpc EXCEPT ![t] = "locked"]
    /\ UNCHANGED <<pipelineVars, sessionVars, postbackVars, got, ncalls>>

\* if _global_session is None: _global_session = requests.Session()
CheckSession(t) ==
    /\ cpc[t] = "locked"
    /\ IF global_session = NoSession
       THEN /\ global_session' = NewSession(built + 1)
            /\ built' = built + 1
            /\ cpc' = [cpc EXCEPT ![t] = "created"]
       ELSE /\ cpc' = [cpc EXCEPT ![t] = "ready"]
            /\ UNCHANGED <<global_session, built>>
    /\ UNCHANGED <<pipelineVars, postbackVars, session_lock, got, ncalls>>

\* _global_session.headers.update({...})
ConfigureSession(t) ==
    /\ cpc[t] = "created"
    /\ global_session' = Configured(global_session)
    /\ cpc' = [cpc EXCEPT ![t] = "ready"]
    /\ UNCHANGED <<pipelineVars, postbackVars, built, session_lock, got, ncalls>>

\* return _global_session, and the lock is released on leaving the with block
ReturnSession(t) ==
    /\ cpc[t] = "ready"
    /\ got' = [got EXCEPT ![t] = [returned |-> TRUE, session |-> global_session]]
    /\ session_lock' = 0
    /\ cpc' = [cpc EXCEPT ![t] = "idle"]
    /\ UNCHANGED <<pipelineVars, sessionVars, postbackVars, ncalls>>

SessionNext ==
    \E t \in Callers :
        \/ CallSession(t)
        \/ Acquire(t)
        \/ CheckSession(t)
        \/ ConfigureSession(t)
        \/ ReturnSession(t)

SessionInit == InitOn({ResultsPage(<<LayoutTable>>, PyNone, PyNone)})

SessionSpec == SessionInit /\ [][SessionNext]_vars

-----------------------------------------------------------------------------
(* The search in front of results tables whose five columns come in any      *)
(* order, with rows that are short of a cell or have no citation id.         *)

MaxParseRows == 2

Columns == 1..Len(HeaderRow.ths)

ColumnOrders == { p \in [Columns -> Columns] : \A a, b \in Columns : a # b => p[a] # p[b] }

ParseRowKinds == {"full", "short", "blank"}

PermutedHeader(p) == [ths |-> [j \in Columns |-> HeaderRow.ths[p[j]]], tds |-> <<>>]

\* the i-th data row under the column order p
PermutedRow(p, i, kind) ==
    LET base == IF i % 2 = 1 THEN DataRow("10", "OPEN").tds ELSE DataRow("2", "PAID").tds
        cells == IF kind = "blank" THEN [base EXCEPT ![2] = Cell("")] ELSE base
        placed == [j \in Columns |-> cells[p[j]]]
    IN  [ ths |-> <<>>,
          tds |-> IF kind = "short" THEN SubSeq(placed, 1, Len(placed) - 1) ELSE placed ]

PermutedTable(p, kinds) ==
    [trs |-> <<PermutedHeader(p)>> \o [i \in 1..Len(kinds) |-> PermutedRow(p, i, kinds[i])]]

ParsePages ==
    { ResultsPage(<<LayoutTable, PermutedTable(p, kinds)>>, PyNone, PyNone) :
          p \in ColumnOrders,
          kinds \in UNION { [1..n -> ParseRowKinds] : n \in 0..MaxParseRows } }

ParseInit == InitOn(ParsePages)

ParseNext ==
    \/ Request([present |-> TRUE, text |-> <<"a","b","1">>])
    \/ LandingGet("ok")
    \/ SearchPost("ok")
    \/ ParseResults

ParseSpec == ParseInit /\ [][ParseNext]_vars

-----------------------------------------------------------------------------
(* The detail phase in front of landing pages with and without the tab and   *)
(* state controls, several fetches in flight at once.                        *)

MaxFetchRows == 2

\* the named controls a landing page may have
LandingFields ==
    { PageFields,
      (TagField :> PyStr("")) @@ (CitnField :> PyStr("")) @@ (TabField :> PyStr(""))
          @@ (StateField :> PyStr("GA")),
      (TagField :> PyStr("")) @@ (CitnField :> PyStr("")) @@ (TabField :> PyStr("")),
      (TagField :> PyStr("")) @@ (CitnField :> PyStr("")) }

LandingPages == { [LandingPage EXCEPT !.fields = f] : f \in LandingFields }

FetchRowSeqs ==
    UNION { [1..n -> { <<"10", "OPEN">>, <<"2", "PAID">> }] : n \in 1..MaxFetchRows }

FetchPages ==
    { ResultsPage(<<LayoutTable, ResultsTable(specs)>>, PyNone, PyStr("$81.00")) :
          specs \in FetchRowSeqs }

FetchInit == InitWith(LandingPages, FetchPages)

FetchNext ==
    \/ Request([present |-> TRUE, text |-> <<"a","b","1">>])
    \/ LandingGet("ok")
    \/ SearchPost("ok")
    \/ ParseResults
    \/ \E i \in 1..MaxFetchRows : StartFetch(i)
    \/ \E i \in 1..MaxFetchRows, out \in {"ok", "Timeout"} : FinishFetch(i, out)
    \/ \E i \in 1..MaxFetchRows : Collect(i)
    \/ Merge
    \/ Done

FetchSpec == FetchInit /\ [][FetchNext]_vars

-----------------------------------------------------------------------------
(* Properties *)

Answered(via) == pc = "answered" /\ response.via = via

Succeeded == { i \in 1..Len(fout) : fout[i] = "ok" }
FailedFetches == { i \in 1..Len(fout) : fout[i] \in FailKinds }

\* the records of a 200 answer, paid first
AllRecords == response.body.paid_citations \o response.body.open_citations

\* the record of row i when its own fetch succeeds, whatever the other fetches met
RecordWhenAllSucceed(i) ==
    DetailedRecord(rows[i], parse_citation_details(DetailPageOf(rows[i]["Citation"][2])))

IsRecordOfRow(rec, i) ==
    /\ \A k \in {"Citation", "Date Issued", "Status", "Amount Due"} :
           k \in DOMAIN rec /\ rec[k] = rows[i][k]
    /\ i \in Succeeded => rec = RecordWhenAllSucceed(i)

\* C1: after the detail phase every summary row has exactly one record in
\* paid_citations or open_citations (N records, a one-to-one match between rows
\* and records), and the record of a row whose fetch succeeded is the one it
\* gets when every fetch succeeds.
C1_EveryRowOneRecord ==
    Answered("MERGED") =>
        /\ Len(rows) >= 1
        /\ Len(AllRecords) = Len(rows)
        /\ \E p \in Permutations(1..Len(rows)) :
               \A i \in 1..Len(rows) : IsRecordOfRow(AllRecords[p[i]], i)

\* a merged answer of two or more rows where one fetch failed, another succeeded,
\* and the failed one was collected first
C1_Witness ==
    /\ Answered("MERGED")
    /\ Len(rows) >= 2
    /\ FailedFetches # {}
    /\ Succeeded # {}
    /\ "error" \in DOMAIN citations[1]

IsDegradedRecordOf(rec, row) ==
    /\ \A k \in {"Citation", "Date Issued", "Status", "Amount Due"} :
           k \in DOMAIN rec /\ rec[k] = row[k]
    /\ "needs_payment" \in DOMAIN rec
    /\ rec["needs_payment"] = PyBool(row["Status"] = PyStr("OPEN"))
    /\ "due_date" \in DOMAIN rec
    /\ rec["due_date"] = PyStr("Not available")
    /\ "error" \in DOMAIN rec
    /\ rec["error"][1] = "str"
    /\ rec["error"][2] # ""

\* C2: the record emitted for a citation whose detail fetch raised carries the
\* four summary fields of its row, needs_payment from the summary status alone,
\* due_date "Not available" and a non-empty error text; it is the record that is
\* collected and that the answer holds.
C2_FailedFetchKeepsSummary ==
    \A i \in FailedFetches :
        LET rec == FutureRecord(rows[i]["Citation"], fresult[i])
        IN  /\ IsDegradedRecordOf(rec, rows[i])
            /\ fstate[i] = "collected" =>
                   \E k \in 1..Len(citations) : citations[k] = rec
            /\ Answered("MERGED") =>
                   \E k \in 1..Len(AllRecords) : AllRecords[k] = rec

\* a merged answer with failed fetches of an open and of a paid row, by timeout
\* and by bad status
C2_Witness ==
    /\ Answered("MERGED")
    /\ \E i \in FailedFetches : rows[i]["Status"] = PyStr("OPEN")
    /\ \E i \in FailedFetches : rows[i]["Status"] # PyStr("OPEN")
    /\ {fout[i] : i \in FailedFetches} = {"Timeout", "HTTPError"}

Ascending(list) ==
    \A k \in 1..Len(list) - 1 :
        ~SeqLess(CodePoints(list[k + 1]["Citation"][2]), CodePoints(list[k]["Citation"][2]))

\* C3: in a merged answer, paid_citations and open_citations are each in
\* ascending order of the citation id, as strings.
C3_SortedByCitation ==
    Answered("MERGED") =>
        /\ Ascending(response.body.paid_citations)
        /\ Ascending(response.body.open_citations)

\* two records of one partition that were collected in descending order
C3_Witness ==
    /\ Answered("MERGED")
    /\ Len(citations) = 2
    /\ SeqLess(CodePoints(citations[2]["Citation"][2]), CodePoints(citations[1]["Citation"][2]))
    /\ \/ Len(response.body.open_citations) = 2
       \/ Len(response.body.paid_citations) = 2

IsPermutationOf(a, b) ==
    /\ Len(a) = Len(b)
    /\ \E p \in Permutations(1..Len(a)) : \A i \in 1..Len(a) : a[p[i]] = b[i]

C5_NeedsPaymentIffOpen ==
    (pc = "answered" /\ response.code = 200) =>
        \A k \in 1..Len(AllRecords) :
            Truthy(AllRecords[k]["needs_payment"]) <=> AllRecords[k]["Status"] = PyStr("OPEN")

\* the site has a results table (one with a header row)
HasResultsTable(page) ==
    \E i \in 1..Len(page.tables) :
        page.tables[i].trs # <<>> /\ page.tables[i].trs[1].ths # <<>>

DataRowCount(page) ==
    LET i == CHOOSE j \in 1..Len(page.tables) : page.tables[j].trs[1].ths # <<>>
    IN  Len(page.tables[i].trs) - 1

ZeroAndEmpty(body) ==
    /\ body.summary.total_citations = 0
    /\ body.summary.total_paid = 0
    /\ body.summary.total_open = 0
    /\ body.paid_citations = <<>>
    /\ body.open_citations = <<>>

\* C6: a missing results table is answered with zero counts, empty sequences
\* and a message (the text of the error label if the page has one, else the
\* fallback text); a table without data rows with zero counts, empty sequences
\* and no message; a 200 answer has a message exactly in the first case.
C6_NoResultsAndEmptyDiffer ==
    (pc = "answered" /\ response.code = 200) =>
        LET body == response.body
            page == portal.results
        IN  /\ response.via = "NO_RESULTS" <=> ~HasResultsTable(page)
            /\ response.via = "EMPTY" <=> (HasResultsTable(page) /\ DataRowCount(page) = 0)
            /\ response.via = "NO_RESULTS" =>
                   /\ ZeroAndEmpty(body)
                   /\ "message" \in DOMAIN body
                   /\ body.message = IF page.errLabel # PyNone THEN page.errLabel
                                     ELSE PyStr("No results table found.")
            /\ response.via = "EMPTY" => ZeroAndEmpty(body) /\ "message" \notin DOMAIN body
            /\ "message" \in DOMAIN body <=> response.via = "NO_RESULTS"

\* the table is there, with a total, and lists no citation
C6_Witness ==
    /\ Answered("EMPTY")
    /\ response.body.summary.total_due # PyNone
    /\ prev.seen

\* C7: the pipeline raises only out of the landing GET or the search POST; once
\* the detail fetches are dispatched the request ends in the MERGED answer,
\* whatever the fetches met, and every run of the pipeline ends raised or in
\* one of NO_RESULTS, EMPTY, MERGED.
C7_OnlySearchPhaseRaises ==
    pc = "answered" =>
        /\ response.via = "RAISED" =>
               /\ response.origin \in {"get", "post"}
               /\ calls = (IF response.origin = "get" THEN 1 ELSE 2)
               /\ fstate = <<>>
        /\ fstate # <<>> => response.code = 200 /\ response.via = "MERGED"
        /\ response.via \in {"MISSING_TAG", "RAISED", "NO_RESULTS", "EMPTY", "MERGED"}
        /\ response.via \in {"NO_RESULTS", "EMPTY", "MERGED"} => response.code = 200

\* every detail fetch of a request of two rows failed, and the answer is MERGED
C7_Witness ==
    /\ Answered("MERGED")
    /\ Len(rows) >= 2
    /\ FailedFetches = 1..Len(rows)

\* C8: a request without a tag is answered 400 with error and usage, no step of
\* the pipeline taken and no network call made; a raising pipeline is answered
\* 500 with error and the text of the cause; every NO_RESULTS, EMPTY or MERGED
\* outcome is answered 200 with the result.
C8_StatusCodes ==
    pc = "answered" =>
        LET missing == ~tag.present \/ tag.text = <<>>
            body == response.body
        IN  /\ missing <=> response.code = 400
            /\ response.code \in {200, 400, 500}
            /\ response.code = 400 =>
                   /\ DOMAIN body = {"error", "usage"}
                   /\ calls = 0
                   /\ soup = NoPage /\ data = EmptyDict /\ fstate = <<>>
            /\ response.code = 500 <=> response.via = "RAISED"
            /\ response.code = 500 =>
                   /\ DOMAIN body = {"error", "message"}
                   /\ response.cause \in FailKinds
                   /\ body.message = PyStr(ErrText(response.cause))
            /\ response.code = 200 <=> response.via \in {"NO_RESULTS", "EMPTY", "MERGED"}
            /\ response.code = 200 =>
                   {"tag_number", "summary", "paid_citations", "open_citations"} \subseteq DOMAIN body

\* a request without a tag, after one that was answered 200
C8_Witness ==
    /\ pc = "answered"
    /\ response.code = 400
    /\ prev.seen

\* the records in the order of submission
SubmissionOrder == [i \in 1..Len(rows) |-> FutureRecord(rows[i]["Citation"], fresult[i])]

\* C9: the merged answer does not depend on the order in which the fetches
\* completed: it is the answer obtained when they complete in submission order,
\* also when two rows carry the same citation id.
C9_CompletionOrderIrrelevant ==
    Answered("MERGED") =>
        response.body = MergedResult(tag.text, total_due, SubmissionOrder)

\* C10: a 200 answer has the counts of the previous 200 answer (same tag, same
\* site), whichever detail fetches succeeded or failed in either run.
C10_RerunSameCounts ==
    (pc = "answered" /\ response.code = 200 /\ prev.seen) =>
        /\ response.body.summary.total_citations = prev.summary.total_citations
        /\ response.body.summary.total_paid = prev.summary.total_paid
        /\ response.body.summary.total_open = prev.summary.total_open

\* C11: total_due of an EMPTY or MERGED answer is the text of the summary-total
\* element of the results page, None when the page has none; it holds that value
\* from the moment the detail fetches are dispatched, whatever they meet and
\* whatever amounts the rows list.
C11_TotalDueVerbatim ==
    /\ pc = "fanout" => total_due = portal.results.totalDue
    /\ (Answered("EMPTY") \/ Answered("MERGED")) =>
           response.body.summary.total_due = portal.results.totalDue

\* a merged answer with a total on the page, a failed and a succeeded fetch, and
\* an open record whose amount is not the total
C11_Witness ==
    /\ Answered("MERGED")
    /\ portal.results.totalDue # PyNone
    /\ FailedFetches # {}
    /\ Succeeded # {}
    /\ \E k \in 1..Len(response.body.open_citations) :
           response.body.open_citations[k]["Amount Due"] # response.body.summary.total_due

\* the hidden state fields a form carries
CarriedHidden(form) == [h \in HiddenIds |-> form[h]]

\* the hidden state fields a page gives to a form built from it
HiddenGivenBy(hidden) ==
    [h \in HiddenIds |-> IF h \in DOMAIN hidden THEN hidden[h] ELSE PyStr("")]

\* C12: every form submission (the tag search and each detail search) carries
\* the values of __VIEWSTATE, __EVENTVALIDATION and __VIEWSTATEGENERATOR of the
\* page that was received last before it was issued.
C12_HiddenFieldsOfLatestPage ==
    sent.kind # "none" => CarriedHidden(sent.form) = HiddenGivenBy(sent.after)

\* the detail fetches that met a timeout
TimedOut == { i \in 1..Len(fout) : fout[i] = "Timeout" }

\* C13: a timeout of a network call of the pipeline (the landing GET, the search
\* POST, a detail POST) reaches the calling step only after max_retries attempts
\* of that call: the calls issued are one per call that did not time out and
\* max_retries per call that did.
C13_TimeoutRetriedThrice ==
    pc = "answered" =>
        /\ (response.via = "RAISED" /\ response.cause = "Timeout") =>
               calls = (IF response.origin = "get" THEN 0 ELSE 1) + max_retries
        /\ Answered("MERGED") =>
               calls = 2 + (Len(rows) - Cardinality(TimedOut))
                         + max_retries * Cardinality(TimedOut)

\* C14: a non-2xx response received by postback is not retried: the attempt
\* that met it is the last submission of the call, and the call has raised that
\* bad-status error.
C14_BadStatusNotRetried ==
    \A k \in 1..Len(pb.outs) :
        pb.outs[k] = "HTTPError" =>
            /\ k = Len(pb.outs)
            /\ pb.pc = "raised"
            /\ pb.result = "HTTPError"

\* C15: one call of postback issues at most 3 submissions; a submission that
\* succeeds is the last one and the call returns the page it received; after
\* three failed submissions the call has raised the failure of the third; the
\* call waits before every attempt but the first; and while the call runs it
\* has issued exactly as many submissions as it has completed attempts, fewer
\* than 3.
C15_AtMostThreeSubmissions ==
    /\ Len(pb.posts) <= 3
    /\ Len(pb.outs) = Len(pb.posts) /\ Len(pb.sleeps) = Len(pb.posts)
    /\ \A k \in 1..Len(pb.outs) :
           /\ pb.sleeps[k] <=> k > 1
           /\ pb.posts[k] = PostbackForm(pb.soup, pb.event_target, "")
           /\ pb.outs[k] = "ok" =>
                  k = Len(pb.outs) /\ pb.pc = "returned" /\ pb.page = portal.results
    /\ pb.pc = "returned" => pb.outs # <<>> /\ pb.outs[Len(pb.outs)] = "ok"
    /\ (Len(pb.outs) = 3 /\ \A k \in 1..3 : pb.outs[k] # "ok") =>
           pb.pc = "raised" /\ pb.result = pb.outs[3]
    /\ pb.pc = "raised" => pb.result = pb.outs[Len(pb.outs)]
    /\ pb.pc = "loop" => Len(pb.posts) = pb.attempt /\ pb.attempt < 3

\* three failed submissions, a timeout, a connection failure and a timeout
C15_Witness ==
    /\ pb.pc = "raised"
    /\ pb.outs = <<"Timeout", "ConnectionError", "Timeout">>
    /\ pb.sleeps = <<FALSE, TRUE, TRUE>>

\* every fetch of the detail phase has run and its result was collected
AllFetched ==
    /\ pc = "fanout"
    /\ \A i \in 1..Len(rows) : fstate[i] = "collected" /\ fout[i] # "none"

\* C16: during the detail phase at most min(5, N) fetches are in flight, N the
\* number of summary rows; no fetch runs twice (the calls issued are the two of
\* the search and one per fetch that has completed); the merged answer is given
\* with each of the N fetches run and collected once; and the detail phase
\* always comes to the point where all N fetches have run.
C16_PoolBound ==
    /\ [](/\ Cardinality(Running) <= Min(5, Len(rows))
          /\ pc = "fanout" =>
                 calls = 2 + Cardinality({ i \in 1..Len(fstate) : fstate[i] \in {"done", "collected"} })
          /\ Answered("MERGED") =>
                 /\ \A i \in 1..Len(rows) : fstate[i] = "collected" /\ fout[i] # "none"
                 /\ Len(citations) = Len(rows)
                 /\ calls = 2 + Len(rows))
    /\ (pc = "fanout") ~> AllFetched

\* six rows: five fetches in flight and the sixth still queued
C16_Witness ==
    /\ pc = "fanout"
    /\ Len(rows) = 6
    /\ Cardinality(Running) = 5
    /\ Queued = {6}

\* C17: the steps of the pipeline are taken in order.  Nothing is sent before
\* the landing GET; the search is submitted after the landing page was received
\* and parsed; the search response is received and parsed into the rows before
\* any detail fetch is submitted; NO_RESULTS and EMPTY are answered with no
\* detail fetch issued; MERGED is answered with no fetch queued or in flight,
\* each one completed and collected.
C17_StepsInOrder ==
    /\ pc = "get" => calls = 0 /\ sent.kind = "none" /\ fstate = <<>>
    /\ pc = "post" =>
           /\ calls = 1 /\ sent.kind = "none" /\ fstate = <<>>
           /\ soup = portal.landing
           /\ data = SearchForm(portal.landing, tag.text)
    /\ sent.kind = "search" => calls >= 2 /\ sent.after = portal.landing.hidden
    /\ pc = "parse" =>
           calls = 2 /\ sent.kind = "search" /\ fstate = <<>> /\ soup = portal.results
    /\ (sent.kind = "detail" \/ fstate # <<>>) =>
           /\ pc \in {"fanout", "answered"}
           /\ soup = portal.results
           /\ find_results_table(soup) # 0
           /\ rows = parse_main_rows(soup.tables[find_results_table(soup)])
           /\ rows # <<>> /\ Len(fstate) = Len(rows)
    /\ (Answered("NO_RESULTS") \/ Answered("EMPTY")) =>
           calls = 2 /\ sent.kind = "search" /\ fstate = <<>>
    /\ Answered("MERGED") =>
           /\ Running = {} /\ Queued = {}
           /\ \A i \in 1..Len(rows) : fstate[i] = "collected" /\ fout[i] # "none"
           /\ calls = 2 + Len(rows)

\* a merged answer of two fetches, the second submitted after the first one's
\* page had arrived
C17_Witness ==
    /\ Answered("MERGED")
    /\ Len(rows) = 2
    /\ sent.kind = "detail"
    /\ sent.after # portal.results.hidden

\* C18: under every interleaving of the callers of get_global_session the
\* Session is constructed at most once, and exactly once as soon as a caller
\* is past the check; every call, of every caller, has returned that one
\* Session with its headers set, never None and never the Session before
\* headers.update has run; at most one caller is inside the with block.
C18_OneSharedSession ==
    /\ built <= 1
    /\ global_session # NoSession => built = 1 /\ global_session.id = 1
    /\ Cardinality({ t \in Callers : cpc[t] \in {"locked", "created", "ready"} }) <= 1
    /\ \A t \in Callers :
           /\ cpc[t] \in {"created", "ready"} => built = 1
           /\ cpc[t] = "ready" => global_session = Configured(NewSession(1))
           /\ got[t].returned =>
                  /\ got[t].session = Configured(NewSession(1))
                  /\ got[t].session = global_session

\* every caller has called twice and holds the Session, while it was built once
C18_Witness ==
    /\ \A t \in Callers : ncalls[t] = MaxCalls /\ cpc[t] = "idle" /\ got[t].returned
    /\ built = 1

\* the rows whose fetch succeeded and whose detail page yields no field
NoDetailRecovered ==
    { i \in Succeeded : parse_citation_details(DetailPageOf(rows[i]["Citation"][2])) = <<>> }

\* C19: a detail fetch whose response yields no detail field is a contained
\* failure of its citation: the record it returns carries due_date
\* "Not available" and an error text, like the record of a fetch that raised.
C19_NoDetailIsFailure ==
    \A i \in NoDetailRecovered :
        LET rec == FutureRecord(rows[i]["Citation"], fresult[i])
        IN  /\ "due_date" \in DOMAIN rec
            /\ rec["due_date"] = PyStr("Not available")
            /\ "error" \in DOMAIN rec

\* C20: in the record of a successful fetch every field found by its known
\* element id keeps the value of that element, whatever rows the fallback
\* tables of the page carry.
C20_KnownFieldsKept ==
    \A i \in Succeeded :
        LET rec == FutureRecord(rows[i]["Citation"], fresult[i])
            known == KnownFields(DetailPageOf(rows[i]["Citation"][2]), 1, <<>>)
        IN  \A k \in 1..Len(known) :
                /\ Join(known[k][1]) \in DOMAIN rec
                /\ rec[Join(known[k][1])] = PyStr(known[k][2])

\* the column that carries a header name, and the text a row has under it
ColumnOf(header_cells, name) ==
    CHOOSE j \in 1..Len(header_cells) : Lower(header_cells[j]) = name

TextUnder(tr, header_cells, name) == tr.tds[ColumnOf(header_cells, name)].text

ColCitation == <<"c","i","t","a","t","i","o","n">>
ColDate == <<"d","a","t","e"," ","i","s","s","u","e","d">>
ColStatus == <<"s","t","a","t","u","s">>
ColAmount == <<"a","m","o","u","n","t"," ","d","u","e">>

\* a row with a cell for every column and a citation id under "Citation"
IsDataRow(tr, header_cells) ==
    /\ Len(tr.tds) >= Len(header_cells)
    /\ TextUnder(tr, header_cells, ColCitation) # ""

ParsedTable == soup.tables[find_results_table(soup)]

\* C21: whatever the order of the five header columns, the parsed rows are the
\* table's rows that have a cell for every column and a non-empty citation id,
\* in the table's order, and each one's Citation, Date Issued, Status and
\* Amount Due is the text of its cell under the header of that name.
C21_FieldsFollowHeader ==
    (pc \in {"fanout", "answered"} /\ find_results_table(soup) # 0) =>
        LET hdr == ParsedTable.trs[1].ths
            kept == SelectSeq(Tail(ParsedTable.trs), LAMBDA tr : IsDataRow(tr, hdr))
        IN  /\ Len(rows) = Len(kept)
            /\ \A i \in 1..Len(kept) :
                   /\ rows[i]["Citation"] = PyStr(TextUnder(kept[i], hdr, ColCitation))
                   /\ rows[i]["Date Issued"] = PyStr(TextUnder(kept[i], hdr, ColDate))
                   /\ rows[i]["Status"] = PyStr(TextUnder(kept[i], hdr, ColStatus))
                   /\ rows[i]["Amount Due"] = PyStr(TextUnder(kept[i], hdr, ColAmount))

\* the header order More Info, Citation, Status, Date Issued, Amount Due with
\* one row parsed and one skipped
C21_Witness ==
    /\ pc = "fanout"
    /\ find_results_table(soup) # 0
    /\ ParsedTable.trs[1].ths = << HeaderRow.ths[1], HeaderRow.ths[2], HeaderRow.ths[4],
                                   HeaderRow.ths[3], HeaderRow.ths[5] >>
    /\ Len(rows) = 1
    /\ Len(ParsedTable.trs) = 3
    /\ rows[1]["Status"] \in {PyStr("OPEN"), PyStr("PAID")}

\* the fields a detail submission sets itself
DetailOwnFields == {"__EVENTTARGET", "__EVENTARGUMENT", CitnField, TagField, TabField, StateField}

\* the form is the baseline with the fields of the search for one citation
IsDetailFormOf(form, baseline, citation_number) ==
    /\ DOMAIN form = DOMAIN baseline \cup {"__EVENTTARGET", "__EVENTARGUMENT", CitnField, TagField}
    /\ form[CitnField] = citation_number
    /\ form[TagField] = PyStr("")
    /\ form["__EVENTTARGET"] = PyStr("ctl00$ContentPlaceHolder1$btnSubmit_CitSearch")
    /\ TabField \in DOMAIN baseline => form[TabField] = PyStr("citation")
    /\ StateField \in DOMAIN baseline => form[StateField] = PyStr("FL")
    /\ \A k \in DOMAIN baseline \ DetailOwnFields : form[k] = baseline[k]

\* C22: during the detail phase the shared field set stays the one built for
\* the search, whichever fetch starts or ends, and the form a starting fetch
\* submits is that field set with its own citation id, an empty tag, the
\* citation-search event target, the tab selector on "citation" and the state
\* selector on "FL" where the field set has them.
C22_FetchesOwnCopy ==
    [][ pc = "fanout" =>
          /\ data = SearchForm(portal.landing, tag.text)
          /\ pc' = "fanout" => data' = data
          /\ \A i \in 1..Len(fstate) :
                 (fstate[i] = "queued" /\ fstate'[i] = "running") =>
                     /\ sent'.kind = "detail"
                     /\ IsDetailFormOf(sent'.form, data, rows[i]["Citation"])
      ]_vars

\* two fetches in flight for different citations, the second one's form just
\* submitted, the baseline still carrying the state the page had selected
C22_Witness ==
    /\ pc = "fanout"
    /\ Cardinality(Running) = 2
    /\ rows[1]["Citation"] # rows[2]["Citation"]
    /\ sent.kind = "detail"
    /\ sent.form[CitnField] = rows[2]["Citation"]
    /\ StateField \in DOMAIN data
    /\ data[StateField] = PyStr("GA")
    /\ sent.form[StateField] = PyStr("FL")
    /\ data[CitnField] = PyStr("")

====
